---- MODULE Spec2Model ----
(***************************************************************************)
(* Budget aggregator: the pipeline of aggregate.js (interactive script,    *)
(* "surface A") and of src/index.js (aggregate_budgets tool call,          *)
(* "surface B").                                                           *)
(*                                                                         *)
(* Strings are sequences of UTF-16 code units, so that toLowerCase,        *)
(* includes, trim, parseFloat, Number-to-string and the default Array sort *)
(* are computed on characters as JavaScript computes them.                 *)
(* Numbers are records: a finite integer, +/-Infinity or NaN.  The cells   *)
(* the model reads hold no fraction and no exponent, and sums stay far     *)
(* from the range where a double rounds.                                   *)
(***************************************************************************)
EXTENDS Integers, Sequences, FiniteSets, TLC

\* ------------------------------------------------------------------ bounds
NumSources == 2     \* N, the number of source spreadsheets of a run
MaxHeaders == 3     \* longest header list given to the heuristic classifier
MaxRecords == 3     \* longest expense list given to the summation

\* ----------------------------------------------------------------- strings
sCategory == <<67, 97, 116, 101, 103, 111, 114, 121>>   \* "Category"
sAmount == <<65, 109, 111, 117, 110, 116>>              \* "Amount"
scategory == <<99, 97, 116, 101, 103, 111, 114, 121>>   \* "category"
scost == <<99, 111, 115, 116>>                          \* "cost"
samount == <<97, 109, 111, 117, 110, 116>>              \* "amount"
sprice == <<112, 114, 105, 99, 101>>                    \* "price"
sInfinity == <<73, 110, 102, 105, 110, 105, 116, 121>>  \* "Infinity"
sNaN == <<78, 97, 78>>                                  \* "NaN"
sComma == <<44>>                                        \* ","
\* input data of the model
sItem == <<73, 116, 101, 109>>                          \* "Item"
sCost == <<67, 111, 115, 116>>                          \* "Cost"
sDesc == <<68, 101, 115, 99>>                           \* "Desc"
sType == <<84, 121, 112, 101>>                          \* "Type"
sPrice == <<80, 114, 105, 99, 101>>                     \* "Price"
sAMOUNT == <<65, 77, 79, 85, 78, 84>>                   \* "AMOUNT"
sCostCategory == <<67, 111, 115, 116, 32, 67, 97, 116, 101, 103, 111, 114, 121>>   \* "Cost Category"
sTape == <<84, 97, 112, 101>>                           \* "Tape"
sCups == <<67, 117, 112, 115>>                          \* "Cups"
sMic == <<77, 105, 99>>                                 \* "Mic"
sEquipment == <<69, 113, 117, 105, 112, 109, 101, 110, 116>>   \* "Equipment"
sFood == <<70, 111, 111, 100>>                          \* "Food"
sFoodPadded == <<32, 70, 111, 111, 100, 32>>            \* " Food "
sFoodAndDrink == <<70, 111, 111, 100, 32, 38, 32, 68, 114, 105, 110, 107>>   \* "Food & Drink"
sMisc == <<77, 105, 115, 99>>                           \* "Misc"
sBlank == <<32, 32>>                                    \* "  "
sEmpty == <<>>                                          \* ""
sn10 == <<49, 48>>                                      \* "10"
sn5 == <<53>>                                           \* "5"
sn20 == <<50, 48>>                                      \* "20"
sNegInfinity == <<45, 73, 110, 102, 105, 110, 105, 116, 121>>   \* "-Infinity"
sabc == <<97, 98, 99>>                                  \* "abc"
sn12abc == <<49, 50, 97, 98, 99>>                       \* "12abc"
sPad7 == <<32, 55>>                                     \* " 7"
sNeg3 == <<45, 51>>                                     \* "-3"

\* ------------------------------------------------------- string primitives
\* String.prototype.toLowerCase on the ASCII letters
LowerUnit(c) == IF c >= 65 /\ c <= 90 THEN c + 32 ELSE c
ToLowerCase(s) == [i \in 1..Len(s) |-> LowerUnit(s[i])]

\* String.prototype.includes
Includes(s, needle) ==
  \E i \in 1..(Len(s) - Len(needle) + 1) : SubSeq(s, i, i + Len(needle) - 1) = needle

StartsWith(s, p) == Len(s) >= Len(p) /\ SubSeq(s, 1, Len(p)) = p

\* white space (tab, LF, VT, FF, CR, space) as trim and parseFloat skip it
IsWhite(c) == c \in {9, 10, 11, 12, 13, 32}

RECURSIVE TrimStart(_)
TrimStart(s) == IF s # <<>> /\ IsWhite(Head(s)) THEN TrimStart(Tail(s)) ELSE s

RECURSIVE TrimEnd(_)
TrimEnd(s) ==
  IF s # <<>> /\ IsWhite(s[Len(s)]) THEN TrimEnd(SubSeq(s, 1, Len(s) - 1)) ELSE s

\* String.prototype.trim
Trim(s) == TrimEnd(TrimStart(s))

\* the relational < of two strings: by code unit, a proper prefix is smaller
RECURSIVE StrLess(_, _)
StrLess(a, b) ==
  IF b = <<>> THEN FALSE
  ELSE IF a = <<>> THEN TRUE
  ELSE IF Head(a) # Head(b) THEN Head(a) < Head(b)
  ELSE StrLess(Tail(a), Tail(b))

\* ----------------------------------------------------------------- numbers
Fin(n) == [k |-> "fin", v |-> n]
PosInf == [k |-> "inf", v |-> 1]
NegInf == [k |-> "inf", v |-> -1]
NaN == [k |-> "nan", v |-> 0]

IsNaN(x) == x.k = "nan"
IsFinite(x) == x.k = "fin"

\* the + of two numbers
FPAdd(a, b) ==
  IF a.k = "nan" \/ b.k = "nan" THEN NaN
  ELSE IF a.k = "inf" /\ b.k = "inf" THEN (IF a.v = b.v THEN a ELSE NaN)
  ELSE IF a.k = "inf" THEN a
  ELSE IF b.k = "inf" THEN b
  ELSE Fin(a.v + b.v)

\* a number as the left operand of ||: 0 and NaN are falsy
NumTruthy(x) == ~(x.k = "nan" \/ (x.k = "fin" /\ x.v = 0))

IsDigit(c) == c >= 48 /\ c <= 57

RECURSIVE DigitPrefixLen(_)
DigitPrefixLen(s) ==
  IF s # <<>> /\ IsDigit(Head(s)) THEN 1 + DigitPrefixLen(Tail(s)) ELSE 0

RECURSIVE DigitsValue(_)
DigitsValue(s) ==
  IF s = <<>> THEN 0 ELSE 10 * DigitsValue(SubSeq(s, 1, Len(s) - 1)) + (s[Len(s)] - 48)

\* parseFloat: leading white space is skipped, then an optional sign, then
\* "Infinity" or the longest run of digits; anything after it is ignored, and
\* no digit at all gives NaN
ParseFloat(s) ==
  LET t == TrimStart(s)
      neg == t # <<>> /\ Head(t) = 45
      signed == t # <<>> /\ Head(t) \in {43, 45}
      rest == IF signed THEN Tail(t) ELSE t
      d == DigitPrefixLen(rest)
  IN IF StartsWith(rest, sInfinity) THEN (IF neg THEN NegInf ELSE PosInf)
     ELSE IF d = 0 THEN NaN
     ELSE Fin((IF neg THEN -1 ELSE 1) * DigitsValue(SubSeq(rest, 1, d)))

RECURSIVE NatToString(_)
NatToString(n) ==
  IF n < 10 THEN <<48 + n>> ELSE NatToString(n \div 10) \o <<48 + (n % 10)>>

\* Number.prototype.toString
NumberToString(x) ==
  IF x.k = "nan" THEN sNaN
  ELSE IF x.k = "inf" THEN (IF x.v < 0 THEN <<45>> \o sInfinity ELSE sInfinity)
  ELSE IF x.v < 0 THEN <<45>> \o NatToString(-x.v)
  ELSE NatToString(x.v)

\* ----------------------------------------------------------------- indices
\* a column index of a mapping: null, missing (undefined) or an integer
Null == [t |-> "null", v |-> 0]
Undefined == [t |-> "undefined", v |-> 0]
Idx(n) == [t |-> "int", v |-> n]

\* Math.max(catIndex, amtIndex), reached only when neither is null:
\* undefined makes it NaN
MathMax(a, b) ==
  IF a.t # "int" \/ b.t # "int" THEN NaN
  ELSE Fin(IF a.v >= b.v THEN a.v ELSE b.v)

\* row.length <= m: every comparison with NaN is false
LenAtMost(row, m) == m.k = "fin" /\ Len(row) <= m.v

\* row[i] is a cell (not undefined); indices are zero-based
HasCell(row, i) == i.t = "int" /\ i.v >= 0 /\ i.v < Len(row)
Cell(row, i) == row[i.v + 1]

\* ------------------------------------------------- column classification
\* a scan that keeps the first match of each role
RECURSIVE ScanHeadersFirst(_, _, _)
ScanHeadersFirst(headers, i, acc) ==
  IF i > Len(headers) THEN acc
  ELSE LET h == ToLowerCase(headers[i])
           c == IF acc.category = Null /\ Includes(h, scategory) THEN Idx(i - 1)
                ELSE acc.category
           a == IF acc.amount = Null
                   /\ (Includes(h, scost) \/ Includes(h, samount) \/ Includes(h, sprice))
                THEN Idx(i - 1) ELSE acc.amount
       IN ScanHeadersFirst(headers, i + 1, [category |-> c, amount |-> a])

\* headers.forEach((header, i) => ...): every header is visited, a later
\* match overwrites an earlier one
RECURSIVE ScanHeaders(_, _, _)
ScanHeaders(headers, i, acc) ==
  IF i > Len(headers) THEN acc
  ELSE LET h == ToLowerCase(headers[i])
           c == IF Includes(h, scategory) THEN Idx(i - 1) ELSE acc.category
           a == IF Includes(h, scost) \/ Includes(h, samount) \/ Includes(h, sprice)
                THEN Idx(i - 1) ELSE acc.amount
       IN ScanHeaders(headers, i + 1, [category |-> c, amount |-> a])

\* the first match kept instead of the last
GetMappingHeuristicFirst(headers) ==
  ScanHeadersFirst(headers, 1, [category |-> Null, amount |-> Null])

\* getMapping(headers, false)
GetMappingHeuristic(headers) ==
  ScanHeaders(headers, 1, [category |-> Null, amount |-> Null])

\* ------------------------------------------------------------ row validation
\* the body of the row loop up to the two pushes: TRUE when the row is kept
RowAccepted(mapping, row) ==
  LET catIndex == mapping.category
      amtIndex == mapping.amount
  IN /\ ~(catIndex = Null \/ amtIndex = Null)
     /\ ~LenAtMost(row, MathMax(catIndex, amtIndex))
     \* !category: row[catIndex]?.trim() is undefined or ""
     /\ HasCell(row, catIndex) /\ Trim(Cell(row, catIndex)) # <<>>
     \* !amountStr: row[amtIndex] is undefined or ""
     /\ HasCell(row, amtIndex) /\ Cell(row, amtIndex) # <<>>
     /\ ~IsNaN(ParseFloat(Cell(row, amtIndex)))

\* the record pushed for a kept row
RowRecord(mapping, row) ==
  [category |-> Trim(Cell(row, mapping.category)),
   amount |-> ParseFloat(Cell(row, mapping.amount))]

\* for (let i = 1; i < data.length; i++): the records of one source, the
\* header row data[0] skipped
RECURSIVE ExtractFrom(_, _, _)
ExtractFrom(data, mapping, i) ==
  IF i > Len(data) THEN <<>>
  ELSE (IF RowAccepted(mapping, data[i]) THEN <<RowRecord(mapping, data[i])>> ELSE <<>>)
       \o ExtractFrom(data, mapping, i + 1)

ExtractRecords(data, mapping) == ExtractFrom(data, mapping, 2)

\* the set restarted at every source
AddCategoriesPerSource(all, recs) == {recs[i].category : i \in DOMAIN recs}

\* allCategories.add(category), for the records of one source
AddCategories(all, recs) == all \cup {recs[i].category : i \in DOMAIN recs}

\* if (data && data.length > 1)
HasDataRows(data) == Len(data) > 1

\* ------------------------------------------------------------------ summation
\* categoryMapping[exp.category] || exp.category: a missing key and an empty
\* value both give the raw category
Normalized(categoryMapping, cat) ==
  IF cat \in DOMAIN categoryMapping /\ categoryMapping[cat] # <<>>
  THEN categoryMapping[cat] ELSE cat

\* for (const cat of allCategories) categoryMapping[cat] = cat
IdentityMapping(cats) == [c \in cats |-> c]

\* a Map is the sequence of its entries in insertion order
MapHas(m, key) == \E i \in DOMAIN m : m[i].category = key
MapGet(m, key) == (CHOOSE i \in DOMAIN m : m[i].category = key)

\* (categoryMap.get(normalized) || 0): undefined, 0 and NaN give 0
GetOrZero(m, key) ==
  IF MapHas(m, key) /\ NumTruthy(m[MapGet(m, key)].amount)
  THEN m[MapGet(m, key)].amount ELSE Fin(0)

\* categoryMap.set(key, value)
MapSet(m, key, value) ==
  IF MapHas(m, key)
  THEN [m EXCEPT ![MapGet(m, key)] = [category |-> key, amount |-> value]]
  ELSE Append(m, [category |-> key, amount |-> value])

\* for (const exp of expenses) { ... categoryMap.set(...) }
RECURSIVE Accumulate(_, _, _)
Accumulate(m, expenses, categoryMapping) ==
  IF expenses = <<>> THEN m
  ELSE LET exp == Head(expenses)
           normalized == Normalized(categoryMapping, exp.category)
       IN Accumulate(MapSet(m, normalized, FPAdd(GetOrZero(m, normalized), exp.amount)),
                     Tail(expenses), categoryMapping)

CategoryMap(expenses, categoryMapping) == Accumulate(<<>>, expenses, categoryMapping)

\* Array.prototype.toString of an entry [name, amount]: joined with ","
EntryToString(e) == e.category \o sComma \o NumberToString(e.amount)

\* .sort() with no comparator orders the entries by their string conversion
SortLess(a, b) == StrLess(EntryToString(a), EntryToString(b))

RECURSIVE InsertSorted(_, _)
InsertSorted(sorted, e) ==
  IF sorted = <<>> THEN <<e>>
  ELSE IF SortLess(e, Head(sorted)) THEN <<e>> \o sorted
  ELSE <<Head(sorted)>> \o InsertSorted(Tail(sorted), e)

RECURSIVE SortEntries(_)
SortEntries(m) ==
  IF m = <<>> THEN <<>>
  ELSE InsertSorted(SortEntries(SubSeq(m, 1, Len(m) - 1)), m[Len(m)])

HeaderRow == <<sCategory, sAmount>>

\* [["Category", "Amount"], ...Array.from(categoryMap.entries()).sort()]:
\* the table, each data row as the text of its two cells
TableData(categoryMap) ==
  LET sorted == SortEntries(categoryMap)
  IN <<HeaderRow>>
     \o [i \in 1..Len(sorted) |-> <<sorted[i].category, NumberToString(sorted[i].amount)>>]

\* Array.from(categoryMap.values()).reduce((sum, val) => sum + val, 0)
RECURSIVE Total(_)
Total(m) ==
  IF m = <<>> THEN Fin(0) ELSE FPAdd(Total(SubSeq(m, 1, Len(m) - 1)), m[Len(m)].amount)

\* ------------------------------------------------------------ destination
\* values.update at A1: the footprint of the table is overwritten, every
\* cell outside it keeps its value
Overlay(old, table) ==
  [i \in 1..(IF Len(old) > Len(table) THEN Len(old) ELSE Len(table)) |->
     IF i > Len(table) THEN old[i]
     ELSE IF i > Len(old) THEN table[i]
     ELSE table[i] \o SubSeq(old[i], Len(table[i]) + 1, Len(old[i]))]

\* ------------------------------------------------------------------- inputs
Sources == 1..NumSources

SheetA == << <<sItem, sCategory, sCost>>, <<sTape, sEquipment, sn10>>, <<sCups, sFood, sn5>> >>
SheetB == << <<sDesc, sType, sPrice>>, <<sMic, sFoodPadded, sn20>>, <<sCups>> >>
SheetHeaderOnly == << <<sCategory, sAmount>> >>
SheetEmpty == <<>>
SourceSheets == {SheetA, SheetB, SheetHeaderOnly, SheetEmpty}

MasterTwoRows == << HeaderRow, <<sMisc, sn5>>, <<sTape, sn10, sabc>> >>
MasterThreeRows == << HeaderRow, <<sMisc, sn5>>, <<sTape, sn10>>, <<sMic, sn20>> >>
MasterSheets == {<<>>, <<HeaderRow>>, MasterTwoRows, MasterThreeRows}

\* what the model can answer to the classification prompt, once parsed
ClassifyResponses ==
  { [category |-> Idx(1), amount |-> Idx(2)],
    [category |-> Null, amount |-> Idx(2)],
    [category |-> Idx(1), amount |-> Idx(3)] }

\* what the model can answer to the normalization prompt, once parsed: any
\* object over some of the labels, a value possibly empty
NormValues == {sMisc, sFood, sEmpty}
NormResponses(cats) == UNION {[D -> NormValues] : D \in SUBSET cats}

\* a request to the model that does not give a parsed answer: the call
\* rejects, or JSON.parse throws on the text
LLMFailures == {"rejected", "badjson"}

NoMapping == [category |-> Undefined, amount |-> Undefined]

\* -------------------------------------------------------------------- state
VARIABLES
  surface,          \* "A": aggregateBudgets of aggregate.js, "B": the tool call handler
  pc,               \* where the run is
  probe,            \* outcome of testKey: "none" (not made), "ok", "fail"
  useLLM,           \* the mode of the run
  sheets,           \* the content of each source spreadsheet
  srcpc,            \* each source's callback inside Promise.all
  allData,          \* the rows each read returned
  idx,              \* the source the for loop is at
  mappings,         \* the mapping used for each source
  allCategories, expenses,
  llmReqs,          \* the requests made to the model, in order
  categoryMapping, categoryMap, tableData, total,
  master,           \* the destination's content
  master0,          \* the destination's content when the run began
  masterData,       \* what the destination read returned
  destOps,          \* the gateway calls made on the destination, in order
  confirmed,        \* the answer to the overwrite prompt: "none", "y", "n"
  faults,           \* the stages at which a call of the run failed
  messages,         \* the result messages of the run, in order
  fnArg, fnRet, fnDone   \* a single call of one function: input, result, returned

inputVars == <<surface, sheets, master0>>
modeVars == <<probe, useLLM>>
readVars == <<srcpc, allData>>
loopVars == <<idx, mappings, allCategories, expenses>>
aggVars == <<categoryMapping, categoryMap, tableData, total>>
destVars == <<master, masterData, destOps, confirmed>>
outVars == <<pc, faults, messages>>
fnVars == <<fnArg, fnRet, fnDone>>
vars == <<inputVars, modeVars, readVars, loopVars, aggVars, destVars, outVars,
          llmReqs, fnVars>>

\* the locals of a run before it computes them
RunLocals ==
  /\ srcpc = [i \in Sources |-> "idle"]
  /\ allData = [i \in Sources |-> <<>>]
  /\ idx = 1
  /\ mappings = [i \in Sources |-> NoMapping]
  /\ allCategories = {}
  /\ expenses = <<>>
  /\ llmReqs = <<>>
  /\ categoryMapping = <<>>
  /\ categoryMap = <<>>
  /\ tableData = <<>>
  /\ total = Fin(0)
  /\ masterData = <<>>
  /\ destOps = <<>>
  /\ confirmed = "none"
  /\ faults = {}
  /\ messages = <<>>

NoCall == fnArg = <<>> /\ fnRet = <<>> /\ fnDone = FALSE

\* A run of either surface, on any sources and any destination.  Surface B
\* has no probe and no mode: its getMapping always asks the model.
Init ==
  /\ surface \in {"A", "B"}
  /\ pc = IF surface = "A" THEN "start" ELSE "fanout"
  /\ probe = "none"
  /\ useLLM = (surface = "B")
  /\ sheets \in [Sources -> SourceSheets]
  /\ master0 \in MasterSheets
  /\ master = master0
  /\ RunLocals
  /\ NoCall

\* the failure reported, the run not ended
CatchAndContinue(stage) ==
  /\ pc' = pc
  /\ faults' = faults \cup {stage}
  /\ messages' = Append(messages, "error")

\* catch (err): the one place a failure of any stage of the run arrives at;
\* it reports one message and the run is over
Catch(stage) ==
  /\ pc' = "failed"
  /\ faults' = faults \cup {stage}
  /\ messages' = Append(messages, "error")

\* const useLLM = await testKey(): a rejected call and an answer without
\* "ok" both give false
TestKey ==
  /\ pc = "start"
  /\ \E r \in {"ok", "fail"} :
       /\ probe' = r
       /\ useLLM' = (r = "ok")
  /\ llmReqs' = Append(llmReqs, [kind |-> "probe", input |-> {}])
  /\ pc' = "fanout"
  /\ UNCHANGED <<inputVars, readVars, loopVars, aggVars, destVars, faults,
                 messages, fnVars>>

\* source_urls.map(async (url) => ...): every callback runs to its first await
StartReads ==
  /\ pc = "fanout"
  /\ srcpc' = [i \in Sources |-> "lookup"]
  /\ pc' = "reading"
  /\ UNCHANGED <<inputVars, modeVars, allData, loopVars, aggVars, destVars,
                 faults, messages, llmReqs, fnVars>>

\* a callback's promise rejects: Promise.all rejects with the first rejection
\* and the await throws; a later rejection is dropped
SourceFails(i, stage) ==
  /\ srcpc' = [srcpc EXCEPT ![i] = "failed"]
  /\ IF pc = "reading" THEN Catch(stage) ELSE UNCHANGED outVars
  /\ UNCHANGED <<inputVars, modeVars, allData, loopVars, aggVars, destVars,
                 llmReqs, fnVars>>

\* await getSheetName(id), of one source
SourceLookup(i) ==
  /\ srcpc[i] = "lookup"
  /\ \/ /\ srcpc' = [srcpc EXCEPT ![i] = "read"]
        /\ UNCHANGED <<inputVars, modeVars, allData, loopVars, aggVars, destVars,
                       outVars, llmReqs, fnVars>>
     \/ SourceFails(i, "metadata")

\* await sheets.spreadsheets.values.get(...), of one source
SourceRead(i) ==
  /\ srcpc[i] = "read"
  /\ \/ /\ srcpc' = [srcpc EXCEPT ![i] = "done"]
        /\ allData' = [allData EXCEPT ![i] = sheets[i]]
        /\ UNCHANGED <<inputVars, modeVars, loopVars, aggVars, destVars,
                       outVars, llmReqs, fnVars>>
     \/ SourceFails(i, "read")

\* the first callback to return resolves the join
ReadsJoinedAny == \E i \in Sources : srcpc[i] = "done"

\* Promise.all resolves: every callback has returned its rows
ReadsJoined == \A i \in Sources : srcpc[i] = "done"

\* const allData = await Promise.all(...)
Join ==
  /\ pc = "reading"
  /\ ReadsJoined
  /\ pc' = "classifying"
  /\ UNCHANGED <<inputVars, modeVars, readVars, loopVars, aggVars, destVars,
                 faults, messages, llmReqs, fnVars>>

\* getMapping: the mappings a call can return
GetMappingResults(headers, llm) ==
  IF llm THEN ClassifyResponses ELSE {GetMappingHeuristic(headers)}

\* getMapping: the requests made once the call has its answer
GetMappingRequests(reqs, headers, llm) ==
  IF llm THEN Append(reqs, [kind |-> "classify", input |-> headers]) ELSE reqs

\* one iteration of for (const data of allData)
ClassifySource ==
  /\ pc = "classifying"
  /\ idx \in Sources
  /\ LET data == allData[idx]
         next == IF idx + 1 \in Sources THEN "classifying" ELSE "normalizing"
     IN IF ~HasDataRows(data)
        THEN /\ idx' = idx + 1
             /\ pc' = next
             /\ UNCHANGED <<mappings, allCategories, expenses, llmReqs, faults, messages>>
        ELSE /\ llmReqs' = GetMappingRequests(llmReqs, data[1], useLLM)
             /\ \/ \E mapping \in GetMappingResults(data[1], useLLM) :
                     LET recs == ExtractRecords(data, mapping)
                     IN /\ mappings' = [mappings EXCEPT ![idx] = mapping]
                        /\ expenses' = expenses \o recs
                        /\ allCategories' = AddCategories(allCategories, recs)
                        /\ idx' = idx + 1
                        /\ pc' = next
                        /\ UNCHANGED <<faults, messages>>
                \/ /\ useLLM
                   /\ \E f \in LLMFailures : Catch("classification")
                   /\ UNCHANGED <<idx, mappings, allCategories, expenses>>
  /\ UNCHANGED <<inputVars, modeVars, readVars, aggVars, destVars, fnVars>>

\* "Apply mapping and sum amounts", the synchronous code up to the next await
Summed(mapping) ==
  /\ categoryMapping' = mapping
  /\ categoryMap' = CategoryMap(expenses, mapping)
  /\ tableData' = TableData(CategoryMap(expenses, mapping))
  /\ total' = Total(CategoryMap(expenses, mapping))

\* the normalization request, its answer parsed, then the summation
NormalizeLLM ==
  /\ pc = "normalizing"
  /\ useLLM
  /\ llmReqs' = Append(llmReqs, [kind |-> "normalize", input |-> allCategories])
  /\ \/ /\ \E m \in NormResponses(allCategories) : Summed(m)
        /\ pc' = "masterLookup"
        /\ UNCHANGED <<faults, messages>>
     \/ /\ \E f \in LLMFailures : Catch("normalization")
        /\ UNCHANGED aggVars
  /\ UNCHANGED <<inputVars, modeVars, readVars, loopVars, destVars, fnVars>>

\* aggregate.js without the model: the prompt, then the identity mapping
NormalizeIdentity ==
  /\ pc = "normalizing"
  /\ ~useLLM
  /\ \/ /\ Summed(IdentityMapping(allCategories))
        /\ pc' = "masterLookup"
        /\ UNCHANGED <<faults, messages>>
     \/ /\ pc' = "exited"
        /\ messages' = Append(messages, "exiting")
        /\ UNCHANGED <<aggVars, faults>>
  /\ UNCHANGED <<inputVars, modeVars, readVars, loopVars, destVars, llmReqs, fnVars>>

\* aggregate.js: const masterSheetName = await getSheetName(masterId), then
\* the destination is read
MasterLookup ==
  /\ pc = "masterLookup"
  /\ surface = "A"
  /\ \/ /\ pc' = "masterRead"
        /\ UNCHANGED <<faults, messages>>
     \/ Catch("metadata")
  /\ UNCHANGED <<inputVars, modeVars, readVars, loopVars, aggVars, destVars,
                 llmReqs, fnVars>>

\* src/index.js: const masterSheetName = await getSheetName(masterId), then
\* values.update at once
MasterLookupTool ==
  /\ pc = "masterLookup"
  /\ surface = "B"
  /\ \/ /\ pc' = "writing"
        /\ UNCHANGED <<faults, messages>>
     \/ Catch("metadata")
  /\ UNCHANGED <<inputVars, modeVars, readVars, loopVars, aggVars, destVars,
                 llmReqs, fnVars>>

\* aggregate.js: the read of the destination, masterRes.data.values || []
MasterRead ==
  /\ pc = "masterRead"
  /\ \/ /\ masterData' = master
        /\ destOps' = Append(destOps, "read")
        /\ pc' = IF Len(master) > 1 THEN "confirmOverwrite" ELSE "clearing"
        /\ UNCHANGED <<faults, messages>>
     \/ /\ Catch("destination read")
        /\ UNCHANGED <<masterData, destOps>>
  /\ UNCHANGED <<inputVars, modeVars, readVars, loopVars, aggVars, master,
                 confirmed, llmReqs, fnVars>>

\* aggregate.js: the overwrite prompt
ConfirmOverwrite ==
  /\ pc = "confirmOverwrite"
  /\ \/ /\ confirmed' = "y"
        /\ pc' = "clearing"
        /\ UNCHANGED messages
     \/ /\ confirmed' = "n"
        /\ pc' = "aborted"
        /\ messages' = messages \o <<"skipping", "total">>
  /\ UNCHANGED <<inputVars, modeVars, readVars, loopVars, aggVars, master,
                 masterData, destOps, faults, llmReqs, fnVars>>

\* aggregate.js: values.clear of A:Z
MasterClear ==
  /\ pc = "clearing"
  /\ \/ /\ master' = <<>>
        /\ destOps' = Append(destOps, "clear")
        /\ pc' = "writing"
        /\ UNCHANGED <<faults, messages>>
     \/ /\ Catch("clear")
        /\ UNCHANGED <<master, destOps>>
  /\ UNCHANGED <<inputVars, modeVars, readVars, loopVars, aggVars, masterData,
                 confirmed, llmReqs, fnVars>>

\* values.update at A1 with tableData, then the success message
MasterWrite ==
  /\ pc = "writing"
  /\ \/ /\ master' = Overlay(master, tableData)
        /\ destOps' = Append(destOps, "write")
        /\ pc' = "done"
        /\ messages' = messages \o <<"updated", "total">>
        /\ UNCHANGED faults
     \/ /\ Catch("write")
        /\ UNCHANGED <<master, destOps>>
  /\ UNCHANGED <<inputVars, modeVars, readVars, loopVars, aggVars, masterData,
                 confirmed, llmReqs, fnVars>>

Next ==
  \/ TestKey
  \/ StartReads
  \/ \E i \in Sources : SourceLookup(i)
  \/ \E i \in Sources : SourceRead(i)
  \/ Join
  \/ ClassifySource
  \/ NormalizeLLM
  \/ NormalizeIdentity
  \/ MasterLookup
  \/ MasterLookupTool
  \/ MasterRead
  \/ ConfirmOverwrite
  \/ MasterClear
  \/ MasterWrite

Spec == Init /\ [][Next]_vars

\* ------------------------------------------------ single calls of a function
\* no run is under way: only the function called below acts
Idle ==
  /\ surface = "A"
  /\ pc = "idle"
  /\ probe = "none"
  /\ useLLM = FALSE
  /\ sheets = [i \in Sources |-> <<>>]
  /\ master0 = <<>>
  /\ master = <<>>
  /\ RunLocals

RECURSIVE SeqsUpTo(_, _)
SeqsUpTo(S, n) ==
  IF n = 0 THEN {<<>>}
  ELSE LET shorter == SeqsUpTo(S, n - 1)
       IN shorter \cup {Append(q, x) : q \in {r \in shorter : Len(r) = n - 1}, x \in S}

HeaderNames == {sItem, sCategory, sCost, sPrice, sAMOUNT, sCostCategory, sType}

\* getMapping(headers, useLLM) of aggregate.js on any header list
InitClassify ==
  /\ Idle
  /\ fnArg \in [headers : SeqsUpTo(HeaderNames, MaxHeaders), useLLM : BOOLEAN]
  /\ fnRet = NoMapping
  /\ fnDone = FALSE

CallGetMapping ==
  /\ ~fnDone
  /\ llmReqs' = GetMappingRequests(llmReqs, fnArg.headers, fnArg.useLLM)
  /\ fnRet' \in GetMappingResults(fnArg.headers, fnArg.useLLM)
  /\ fnDone' = TRUE
  /\ UNCHANGED <<inputVars, modeVars, readVars, loopVars, aggVars, destVars,
                 outVars, fnArg>>

SpecClassify == InitClassify /\ [][CallGetMapping]_vars

\* the row loop on any mapping and any data row under a header row
RowCells == {sFood, sFoodPadded, sBlank, sEmpty, sn10, sn12abc, sPad7, sNeg3, sabc,
             sInfinity, sNegInfinity}
RowIndices == {Null, Undefined, Idx(-1), Idx(0), Idx(1), Idx(2)}
RowHeaders == {<<sCategory, sAmount>>, <<sFood, sn10, sn5>>}
MaxCells == 3

InitRows ==
  /\ Idle
  /\ fnArg \in [data : {<<h, r>> : h \in RowHeaders, r \in SeqsUpTo(RowCells, MaxCells)},
                mapping : [category : RowIndices, amount : RowIndices]]
  /\ fnRet = [expenses |-> <<>>, allCategories |-> {}]
  /\ fnDone = FALSE

CallExtract ==
  /\ ~fnDone
  /\ LET recs == ExtractRecords(fnArg.data, fnArg.mapping)
     IN fnRet' = [expenses |-> recs, allCategories |-> AddCategories({}, recs)]
  /\ fnDone' = TRUE
  /\ UNCHANGED <<inputVars, modeVars, readVars, loopVars, aggVars, destVars,
                 outVars, llmReqs, fnArg>>

SpecRows == InitRows /\ [][CallExtract]_vars

\* the summation and the table on any expense list and any category mapping
SumCategories == {sFood, sFoodAndDrink, sEquipment}
SumAmounts == {Fin(5), Fin(10), PosInf, NegInf}
SumRecords == [category : SumCategories, amount : SumAmounts]
CategoriesOf(recs) == {recs[i].category : i \in DOMAIN recs}

InitSum ==
  /\ Idle
  /\ \E recs \in SeqsUpTo(SumRecords, MaxRecords) :
       \E m \in NormResponses(CategoriesOf(recs)) \cup {IdentityMapping(CategoriesOf(recs))} :
         fnArg = [expenses |-> recs, categoryMapping |-> m,
                  identity |-> (m = IdentityMapping(CategoriesOf(recs)))]
  /\ fnRet = [categoryMap |-> <<>>, tableData |-> <<>>, total |-> Fin(0)]
  /\ fnDone = FALSE

CallSum ==
  /\ ~fnDone
  /\ LET m == CategoryMap(fnArg.expenses, fnArg.categoryMapping)
     IN fnRet' = [categoryMap |-> m, tableData |-> TableData(m), total |-> Total(m)]
  /\ fnDone' = TRUE
  /\ UNCHANGED <<inputVars, modeVars, readVars, loopVars, aggVars, destVars,
                 outVars, llmReqs, fnArg>>

SpecSum == InitSum /\ [][CallSum]_vars

\* ------------------------------------------------------------------- claims
Ops(kinds) == {k \in DOMAIN destOps : destOps[k] \in kinds}
Requests(kinds) == {k \in DOMAIN llmReqs : llmReqs[k].kind \in kinds}
AfterJoin == {"classifying", "normalizing", "masterLookup", "masterRead",
              "confirmOverwrite", "clearing", "writing", "done", "aborted", "exited"}
AfterNormalizing == {"masterLookup", "masterRead", "confirmOverwrite", "clearing",
                     "writing", "done", "aborted"}

\* C1: on both surfaces the destination is read before it is cleared or
\* written; a destination holding more than one row is cleared or written
\* only after the overwrite was confirmed in this run; a declined
\* confirmation reports the total and leaves the destination as it was.
C1_ConfirmBeforeOverwrite ==
  /\ \A k \in Ops({"clear", "write"}) :
       /\ \E j \in Ops({"read"}) : j < k
       /\ Len(master0) > 1 => confirmed = "y"
  /\ confirmed = "n" =>
       /\ Ops({"clear", "write"}) = {}
       /\ master = master0
       /\ \E k \in DOMAIN messages : messages[k] = "total"

\* C2: on both surfaces every write of the destination directly follows a
\* clear of it, and a run that ends in Done leaves the destination holding
\* exactly the table: the header row and one row per canonical category,
\* nothing of the earlier content.
C2_ClearThenWrite ==
  /\ \A k \in Ops({"write"}) : k > 1 /\ destOps[k - 1] = "clear"
  /\ pc = "done" =>
       /\ master = tableData
       /\ Len(master) = 1 + Len(categoryMap)
       /\ master[1] = HeaderRow

\* the destination shows the whole table in its top-left corner
HoldsTable(sheet, table) ==
  /\ Len(sheet) >= Len(table)
  /\ \A i \in DOMAIN table : SubSeq(sheet[i], 1, Len(table[i])) = table[i]

\* C3: a failed call or parse at any stage ends the run in Failed with one
\* message; the destination is then as before the run, or empty when the
\* failure came after the clear; the destination is never changed to
\* anything but empty or the complete table of a run that ended in Done.
C3_NoPartialSuccess ==
  /\ faults # {} <=> pc = "failed"
  /\ pc = "failed" =>
       /\ messages = <<"error">>
       /\ \/ master = master0
          \/ Ops({"clear"}) # {} /\ master = <<>>
  /\ pc # "failed" => \A k \in DOMAIN messages : messages[k] # "error"
  /\ \/ master = master0
     \/ Ops({"clear"}) # {} /\ master = <<>>
     \/ pc = "done" /\ HoldsTable(master, tableData)

\* C3 witness: the write failed after the clear emptied a destination that
\* held rows
C3_Witness ==
  /\ pc = "failed"
  /\ faults = {"write"}
  /\ master0 = MasterThreeRows
  /\ master = <<>>

\* C4: the N reads start together; classification, extraction,
\* normalization and every access to the destination come only after all N
\* reads returned; one failed lookup or read fails the run and none of those
\* stages is ever run, whatever the other reads do.
C4_FanOutFanIn ==
  /\ (\E i \in Sources : srcpc[i] # "idle") => \A i \in Sources : srcpc[i] # "idle"
  /\ ( \/ pc \in AfterJoin
       \/ idx > 1
       \/ expenses # <<>>
       \/ Requests({"classify", "normalize"}) # {}
       \/ tableData # <<>>
       \/ destOps # <<>>
       \/ master # master0 )
     => \A i \in Sources : srcpc[i] = "done" /\ allData[i] = sheets[i]
  /\ (\E i \in Sources : srcpc[i] = "failed") =>
       /\ pc = "failed"
       /\ idx = 1
       /\ Requests({"classify", "normalize"}) = {}
       /\ destOps = <<>>

\* C4 witness: one read failed after another had already returned its rows
C4_Witness ==
  /\ pc = "failed"
  /\ srcpc[1] = "done"
  /\ srcpc[2] = "failed"
  /\ sheets[1] = SheetA

\* C5: on both surfaces the mode comes from one probe made before any source
\* is classified: a classification or normalization request is made only in
\* a run whose probe succeeded, a source is classified only after the probe,
\* and after a failed probe every source is classified by the heuristic.
C5_ModeByProbe ==
  /\ Requests({"classify", "normalize"}) # {} =>
       /\ probe = "ok"
       /\ llmReqs[1].kind = "probe"
  /\ (\E i \in Sources : mappings[i] # NoMapping) =>
       /\ probe # "none"
       /\ useLLM = (probe = "ok")
  /\ probe = "fail" =>
       \A i \in Sources :
         mappings[i] # NoMapping => mappings[i] = GetMappingHeuristic(allData[i][1])
  /\ Cardinality(Requests({"probe"})) <= 1

\* the trimmed categories of the rows of source i that its mapping accepts
AcceptedCategories(i) ==
  IF ~HasDataRows(allData[i]) THEN {}
  ELSE {Trim(Cell(allData[i][r], mappings[i].category)) :
          r \in {q \in 2..Len(allData[i]) : RowAccepted(mappings[i], allData[i][q])}}

\* C6: in model-assisted mode at most one normalization request is made, and
\* exactly one in a run that gets past normalization; it is made after every
\* source was extracted, and it lists exactly the distinct trimmed categories
\* of the accepted records of all sources; one mapping serves all sources, so
\* the table has one row per canonical category of that list.
C6_SingleNormalization ==
  LET norm == Requests({"normalize"})
  IN /\ Cardinality(norm) <= 1
     /\ pc \in AfterNormalizing /\ useLLM => Cardinality(norm) = 1
     /\ \A k \in norm :
          /\ useLLM
          /\ idx = NumSources + 1
          /\ llmReqs[k].input = UNION {AcceptedCategories(i) : i \in Sources}
          /\ llmReqs[k].input = CategoriesOf(expenses)
     /\ pc \in AfterNormalizing /\ useLLM =>
          CategoriesOf(categoryMap)
            = {Normalized(categoryMapping, c) : c \in UNION {AcceptedCategories(i) : i \in Sources}}

\* C6 witness: "Food" comes from the first source and, once trimmed, from the
\* second; the one request lists it once beside "Equipment"
C6_Witness ==
  /\ useLLM
  /\ pc = "done"
  /\ Cardinality(Requests({"normalize"})) = 1
  /\ AcceptedCategories(1) = {sEquipment, sFood}
  /\ AcceptedCategories(2) = {sFood}
  /\ allCategories = {sEquipment, sFood}

\* what the row validation is claimed to keep
ClaimedValid(mapping, row) ==
  /\ mapping.category.t = "int" /\ mapping.amount.t = "int"
  /\ mapping.category.v >= 0 /\ mapping.amount.v >= 0
  /\ Len(row) > mapping.category.v /\ Len(row) > mapping.amount.v
  /\ Trim(Cell(row, mapping.category)) # <<>>
  /\ IsFinite(ParseFloat(Cell(row, mapping.amount)))

\* C7: a data row gives an expense record exactly when both mapped indices
\* are given, the row has more cells than the larger one, the category cell
\* is non-empty once trimmed and the amount cell parses as a finite number;
\* any other row gives no record and no category; the header row gives none.
C7_RowValidation ==
  fnDone =>
    LET row == fnArg.data[2]
    IN /\ Len(fnRet.expenses) = (IF ClaimedValid(fnArg.mapping, row) THEN 1 ELSE 0)
       /\ Cardinality(fnRet.allCategories) = Len(fnRet.expenses)
       /\ \A i \in DOMAIN fnRet.expenses :
            /\ fnRet.expenses[i].category = Trim(Cell(row, fnArg.mapping.category))
            /\ IsFinite(fnRet.expenses[i].amount)

\* C8: the data rows of the table are in ascending lexicographic order of
\* the category name alone, a name that is a prefix of another one first.
C8_RowsSortedByName ==
  fnDone =>
    \A i \in 2..(Len(fnRet.tableData) - 1) :
      StrLess(fnRet.tableData[i][1], fnRet.tableData[i + 1][1])

\* the category a record is claimed to be counted under
ClaimedCanonical(m, cat) == IF cat \in DOMAIN m THEN m[cat] ELSE cat

RECURSIVE SumOf(_)
SumOf(recs) ==
  IF recs = <<>> THEN Fin(0)
  ELSE FPAdd(SumOf(SubSeq(recs, 1, Len(recs) - 1)), recs[Len(recs)].amount)

\* C9: a record counts under mapping[category] when the mapping has that key
\* and under its own category otherwise; the table has one row per resulting
\* category, its amount the sum of the records counted under it; the total
\* is the sum of all records; the identity mapping merges nothing.
C9_SumsUnderMapping ==
  fnDone =>
    LET m == fnArg.categoryMapping
        recs == fnArg.expenses
        Under(c) == LET Is(e) == ClaimedCanonical(m, e.category) = c
                    IN SelectSeq(recs, Is)
        canon == {ClaimedCanonical(m, recs[i].category) : i \in DOMAIN recs}
    IN /\ CategoriesOf(fnRet.categoryMap) = canon
       /\ Len(fnRet.categoryMap) = Cardinality(canon)
       /\ Len(fnRet.tableData) = 1 + Cardinality(canon)
       /\ \A i \in DOMAIN fnRet.categoryMap :
            fnRet.categoryMap[i].amount = SumOf(Under(fnRet.categoryMap[i].category))
       /\ fnRet.total = SumOf(recs)
       /\ fnArg.identity => CategoriesOf(fnRet.categoryMap) = CategoriesOf(recs)

Matching(headers, words) ==
  {i \in DOMAIN headers : \E w \in words : Includes(ToLowerCase(headers[i]), w)}
LastOf(S) == CHOOSE i \in S : \A j \in S : j <= i

\* C10: getMapping without the model gives null for a role no header
\* matches and otherwise the zero-based index of the last matching header,
\* an index of the header list; it makes no request to the model.
C10_HeuristicLastMatch ==
  fnDone /\ ~fnArg.useLLM =>
    LET cat == Matching(fnArg.headers, {scategory})
        amt == Matching(fnArg.headers, {scost, samount, sprice})
    IN /\ fnRet.category = (IF cat = {} THEN Null ELSE Idx(LastOf(cat) - 1))
       /\ fnRet.amount = (IF amt = {} THEN Null ELSE Idx(LastOf(amt) - 1))
       /\ \A x \in {fnRet.category, fnRet.amount} :
            x # Null => x.t = "int" /\ x.v >= 0 /\ x.v < Len(fnArg.headers)
       /\ llmReqs = <<>>

\* C10 witness: two headers match each role and the later one is returned
C10_Witness ==
  /\ fnDone
  /\ fnArg = [headers |-> <<sCategory, sCostCategory, sPrice>>, useLLM |-> FALSE]
  /\ fnRet = [category |-> Idx(1), amount |-> Idx(2)]

====
